---- MODULE Spec2Model ----
(***************************************************************************)
(* Topology refinement of neuron graphs (neurographs):                     *)
(*   graph_routines.prune / explore_branches.prune_spurious_paths          *)
(*   explore_branches.prune_short_connectors                               *)
(*   explore_branches.detect_crossovers / count_branches                   *)
(*   explore_branches.postprocess_prediction / break_crossovers /          *)
(*   explore_branches.explore_branches                                     *)
(*                                                                         *)
(* A graph is a record [nodes, edges]: nodes is the sequence of node ids   *)
(* in insertion order (the order networkx iterates graph.nodes in), edges  *)
(* is a set of two-element sets.  Adjacency is iterated in the order of    *)
(* the node sequence.                                                      *)
(***************************************************************************)
EXTENDS Naturals, Integers, Sequences, FiniteSets, TLC

VARIABLES
    graph,              \* the networkx graph the running operation works on
    call_graph,         \* the graph as it was when the operation was first called
    pc,                 \* position of the running operation
    min_branch_length,  \* prune: threshold argument
    leaf_nodes,         \* prune: leaves still to be processed (fixed at call)
    leaf_order,         \* prune: the leaf list as built at call time
    calls,              \* prune: number of calls made so far
    first_result,       \* prune: the graph returned by the first call
    min_connector_length, \* prune_short_connectors: threshold argument
    dfs_edges,          \* prune_short_connectors: DFS edges still to scan
    remove_edges,       \* prune_short_connectors: list of marked edges
    flag_junction,      \* prune_short_connectors: tracking flag
    path_length,        \* prune_short_connectors: running length
    cur_branch,         \* prune_short_connectors: edges of the current run
    depth,              \* detect_crossovers: depth argument
    junctions,          \* detect_crossovers: junctions still to explore
    prune_nodes,        \* detect_crossovers: list of nodes to excise
    excised,            \* detect_crossovers: junction -> nodes it contributed
    orchestrator,       \* orchestrators: which pass is running
    todo,               \* orchestrators: number of input graphs still to come
    upd,                \* orchestrators: list of returned components
    branch_lengths,     \* explore_branches: list of run lengths
    pruned_graph,       \* orchestrators: the last input graph when its guard was tested
    last_removed        \* orchestrators: that graph after the pass's removals

prune_vars == <<min_branch_length, leaf_nodes, leaf_order, calls, first_result>>
conn_vars  == <<min_connector_length, dfs_edges, remove_edges, flag_junction,
                path_length, cur_branch>>
cross_vars == <<depth, junctions, prune_nodes, excised>>
orch_vars  == <<orchestrator, todo, upd, branch_lengths, pruned_graph, last_removed>>
vars == <<graph, call_graph, pc, prune_vars, conn_vars, cross_vars, orch_vars>>

(***************************************************************************)
(* Bounds of the model and constants of the program.                       *)
(***************************************************************************)
MaxForestNodes == 6     \* forests of parent pointers have this many nodes
MaxSmallNodes == 4      \* arbitrary graphs (cycles included) have this many
MaxThreshold == 2       \* small thresholds 1..MaxThreshold are tried
MaxArms == 4            \* spiders have 3..MaxArms arms
MaxArmLen == 3          \* each arm of a spider has 1..MaxArmLen nodes
SpuriousDefault == 5    \* prune_spurious_paths(graph, min_branch_length=5)
PruneDefault == 10      \* prune(graph, min_branch_length=10)

(***************************************************************************)
(* Graph model (networkx.Graph).                                           *)
(***************************************************************************)
Range(s) == {s[k] : k \in DOMAIN s}

V(G) == Range(G.nodes)

Pairs(S) == {{a, b} : a \in S, b \in S} \ {{a} : a \in S}

Min(S) == CHOOSE x \in S : \A y \in S : x <= y

RECURSIVE Sorted(_)
Sorted(S) == IF S = {} THEN <<>> ELSE <<Min(S)>> \o Sorted(S \ {Min(S)})

Graph(S, E) == [nodes |-> Sorted(S), edges |-> E]

\* graph.neighbors(n) as a set
neighbors(G, n) == {m \in V(G) : {n, m} \in G.edges}

\* graph.degree[n]
degree(G, n) == Cardinality(neighbors(G, n))

\* list(graph.neighbors(n)): adjacency in node order
nbs_list(G, n) == SelectSeq(G.nodes, LAMBDA m : {n, m} \in G.edges)

\* graph.remove_nodes_from(S): incident edges go with the nodes
remove_nodes_from(G, S) ==
    [nodes |-> SelectSeq(G.nodes, LAMBDA m : m \notin S),
     edges |-> {e \in G.edges : e \cap S = {}}]

\* graph.remove_edges_from(T) for a set T of (i, j) tuples
remove_edges_from(G, T) ==
    [nodes |-> G.nodes,
     edges |-> G.edges \ {{t[1], t[2]} : t \in T}]

\* [i for i in graph.nodes if graph.degree[i] == 1]
leaf_list(G) == SelectSeq(G.nodes, LAMBDA n : degree(G, n) = 1)

Perms(S) == {p \in [1..Cardinality(S) -> S] : \A a \in S : \E k \in DOMAIN p : p[k] = a}

(***************************************************************************)
(* Input graphs.                                                           *)
(***************************************************************************)
\* forests given by parent pointers (the swc layout): node c has a parent
\* p < c, or none (p = 0) when roots is TRUE and always for node 1
RECURSIVE ParentEdgeSets(_, _)
ParentEdgeSets(n, roots) ==
    IF n <= 1 THEN {{}}
    ELSE {E \cup (IF p = 0 THEN {} ELSE {{p, n}}) :
            E \in ParentEdgeSets(n - 1, roots),
            p \in (IF roots THEN 0 ELSE 1)..(n - 1)}

ForestGraphs == {Graph(1..MaxForestNodes, E) : E \in ParentEdgeSets(MaxForestNodes, TRUE)}

\* every graph on a few nodes, cycles included
SmallGraphs == {Graph(1..MaxSmallNodes, E) : E \in SUBSET Pairs(1..MaxSmallNodes)}

\* G with a fresh path of len nodes attached to node at
AddPath(G, at, len) ==
    LET n == Len(G.nodes)
    IN  [nodes |-> G.nodes \o [k \in 1..len |-> n + k],
         edges |-> G.edges \cup (IF len = 0 THEN {} ELSE {{at, n + 1}})
                           \cup {{n + k, n + k + 1} : k \in 1..(len - 1)}]

RECURSIVE AddArms(_, _, _)
AddArms(G, at, lens) ==
    IF lens = <<>> THEN G ELSE AddArms(AddPath(G, at, Head(lens)), at, Tail(lens))

\* a hub (node 1) with one arm of lens[k] nodes for each k
Spider(lens) == AddArms([nodes |-> <<1>>, edges |-> {}], 1, lens)

SpiderGraphs ==
    UNION {{Spider(l) : l \in [1..k -> 1..MaxArmLen]} : k \in 3..MaxArms}

\* a straight chain 1..12 with a spur 13, 14 hanging off chain node 6
ChainSpurEdges == {{k, k + 1} : k \in 1..11} \cup {{6, 13}, {13, 14}}
ChainSpurLeaves == {1, 12, 14}
ChainSpurGraphs ==
    {[nodes |-> p \o Sorted((1..14) \ ChainSpurLeaves), edges |-> ChainSpurEdges] :
        p \in Perms(ChainSpurLeaves)}

(***************************************************************************)
(* Leaf-branch pruner: graph_routines.prune and                            *)
(* explore_branches.prune_spurious_paths (the same code).                  *)
(***************************************************************************)
\* the while loop: FIFO walk from the leaf; stops at the first node with
\* more than 2 neighbours.  graph.neighbors raises for a node not in graph.
RECURSIVE walk_loop(_, _, _)
walk_loop(G, queue, visited) ==
    IF queue = <<>> THEN [hit_junction |-> FALSE, visited |-> visited, raised |-> FALSE]
    ELSE LET node == Head(queue)
             nbs == nbs_list(G, node)
         IN  IF node \notin V(G)
             THEN [hit_junction |-> FALSE, visited |-> visited, raised |-> TRUE]
             ELSE IF Len(nbs) > 2
             THEN [hit_junction |-> TRUE, visited |-> visited, raised |-> FALSE]
             ELSE walk_loop(G,
                            Tail(queue) \o SelectSeq(nbs, LAMBDA x : x \notin visited \cup {node}),
                            visited \cup {node})

\* mutant: the node that stops the walk is added to visited as well
walk_visiting_junction(G, leaf) ==
    LET w == walk_loop(G, <<leaf>>, {})
    IN  IF w.hit_junction
        THEN [w EXCEPT !.visited = @ \cup {n \in V(G) : degree(G, n) > 2
                                              /\ neighbors(G, n) \cap w.visited # {}}]
        ELSE w

\* mutant: a node with 2 neighbours already counts as a junction
RECURSIVE walk_loop_ge2(_, _, _)
walk_loop_ge2(G, queue, visited) ==
    IF queue = <<>> THEN [hit_junction |-> FALSE, visited |-> visited, raised |-> FALSE]
    ELSE LET node == Head(queue)
             nbs == nbs_list(G, node)
         IN  IF node \notin V(G)
             THEN [hit_junction |-> FALSE, visited |-> visited, raised |-> TRUE]
             ELSE IF Len(nbs) >= 2
             THEN [hit_junction |-> TRUE, visited |-> visited, raised |-> FALSE]
             ELSE walk_loop_ge2(G,
                            Tail(queue) \o SelectSeq(nbs, LAMBDA x : x \notin visited \cup {node}),
                            visited \cup {node})

walk_ge2(G, leaf) == walk_loop_ge2(G, <<leaf>>, {})

\* queue = [leaf]; visited = set(); hit_junction = False; while ...
walk(G, leaf) == walk_loop(G, <<leaf>>, {})

\* mutant: the length test is strict
branch_is_short_strict(w, thr) == w.hit_junction /\ Cardinality(w.visited) < thr

\* if hit_junction and len(visited) <= min_branch_length
branch_is_short(w, thr) == w.hit_junction /\ Cardinality(w.visited) <= thr

\* one iteration of "for leaf in leaf_nodes"
prune_one(G, leaf, thr) ==
    LET w == walk(G, leaf)
    IN  IF branch_is_short(w, thr) THEN remove_nodes_from(G, w.visited) ELSE G

\* the whole for loop, for the callers that use prune as one step
RECURSIVE prune_loop(_, _, _)
prune_loop(G, leaves, thr) ==
    IF leaves = <<>> THEN G
    ELSE LET next == prune_one(G, Head(leaves), thr)
         IN  IF next = G THEN prune_loop(G, Tail(leaves), thr)
             ELSE prune_loop(next, Tail(leaves), thr)

\* prune(graph, min_branch_length) / prune_spurious_paths(graph, min_branch_length)
prune(G, thr) == prune_loop(G, leaf_list(G), thr)

\* ---- the pruner as a state machine: one action per leaf ---------------
PruneInputs == ForestGraphs \cup SmallGraphs \cup SpiderGraphs \cup ChainSpurGraphs
Thresholds == (1..MaxThreshold) \cup {SpuriousDefault}
NoGraph == [nodes |-> <<>>, edges |-> {}]

conn_idle ==
    /\ min_connector_length = 0 /\ dfs_edges = <<>> /\ remove_edges = {}
    /\ flag_junction = FALSE /\ path_length = 0 /\ cur_branch = {}
cross_idle ==
    /\ depth = 0 /\ junctions = <<>> /\ prune_nodes = {} /\ excised = <<>>
orch_idle ==
    /\ orchestrator = "none" /\ todo = 0 /\ upd = <<>> /\ branch_lengths = <<>>
    /\ pruned_graph = NoGraph /\ last_removed = NoGraph
prune_idle ==
    /\ min_branch_length = 0 /\ leaf_nodes = <<>> /\ leaf_order = <<>>
    /\ calls = 0 /\ first_result = NoGraph

InitPrune ==
    /\ graph \in PruneInputs
    /\ call_graph = graph
    /\ pc = "idle"
    /\ min_branch_length \in Thresholds
    /\ leaf_nodes = <<>>
    /\ leaf_order = <<>>
    /\ calls = 0
    /\ first_result = NoGraph
    /\ conn_idle /\ cross_idle /\ orch_idle

\* leaf_nodes = [i for i in graph.nodes if graph.degree[i] == 1]
prune_call ==
    /\ pc \in {"idle", "done"}
    /\ calls < 2
    /\ pc' = "loop"
    /\ calls' = calls + 1
    /\ call_graph' = IF calls = 0 THEN graph ELSE call_graph
    /\ leaf_nodes' = leaf_list(graph)
    /\ leaf_order' = leaf_list(graph)
    /\ first_result' = IF calls = 1 THEN graph ELSE first_result
    /\ UNCHANGED <<graph, min_branch_length, conn_vars, cross_vars, orch_vars>>

\* for leaf in leaf_nodes: walk, then remove the visited nodes of a short branch
prune_leaf ==
    /\ pc = "loop"
    /\ leaf_nodes # <<>>
    /\ LET w == walk(graph, Head(leaf_nodes))
       IN  IF w.raised
           THEN /\ pc' = "raised"
                /\ UNCHANGED <<graph, leaf_nodes>>
           ELSE /\ graph' = prune_one(graph, Head(leaf_nodes), min_branch_length)
                /\ leaf_nodes' = Tail(leaf_nodes)
                /\ pc' = "loop"
    /\ UNCHANGED <<call_graph, min_branch_length, leaf_order, calls, first_result,
                   conn_vars, cross_vars, orch_vars>>

\* return graph
prune_return ==
    /\ pc = "loop"
    /\ leaf_nodes = <<>>
    /\ pc' = "done"
    /\ UNCHANGED <<graph, call_graph, prune_vars, conn_vars, cross_vars, orch_vars>>

NextPrune == prune_call \/ prune_leaf \/ prune_return

SpecPrune == InitPrune /\ [][NextPrune]_vars

(***************************************************************************)
(* networkx traversals used by explore_branches.py.                        *)
(***************************************************************************)
\* nx.dfs_edges(G, source, depth_limit): iterative DFS over a stack of
\* (parent, remaining children); depth_now is the height of the stack.  A
\* child found at depth_now = depth_limit is yielded and marked visited but
\* not expanded.  One step of dfs_loop takes the next unvisited child of the
\* top of the stack, or pops the top when it has none left.
RECURSIVE dfs_loop(_, _, _, _, _)
dfs_loop(G, stack, visited, out, limit) ==
    IF stack = <<>> THEN out
    ELSE LET parent == stack[Len(stack)][1]
             children == SelectSeq(stack[Len(stack)][2], LAMBDA c : c \notin visited)
             below == SubSeq(stack, 1, Len(stack) - 1)
         IN  IF children = <<>> THEN dfs_loop(G, below, visited, out, limit)
             ELSE LET child == Head(children)
                      rest == Append(below, <<parent, Tail(children)>>)
                  IN  dfs_loop(G,
                               IF Len(stack) < limit
                               THEN Append(rest, <<child, nbs_list(G, child)>>)
                               ELSE rest,
                               visited \cup {child}, Append(out, <<parent, child>>), limit)

\* list(nx.dfs_edges(graph, source, depth_limit=limit))
dfs_edges_limit(G, source, limit) ==
    dfs_loop(G, <<<<source, nbs_list(G, source)>>>>, {source}, <<>>, limit)

\* list(nx.dfs_edges(graph, source)): depth_limit defaults to len(G)
dfs_edges_from(G, source) == dfs_edges_limit(G, source, Len(G.nodes))

\* the nodes reachable from the frontier
RECURSIVE reach(_, _, _)
reach(G, frontier, seen) ==
    IF frontier = {} THEN seen
    ELSE LET next == UNION {neighbors(G, n) : n \in frontier} \ (seen \cup frontier)
         IN  reach(G, next, seen \cup frontier)

\* list(nx.connected_components(graph)): node sets, in the order of the
\* first node of each component
RECURSIVE components_loop(_, _, _)
components_loop(G, nodes, seen) ==
    IF nodes = <<>> THEN <<>>
    ELSE IF Head(nodes) \in seen THEN components_loop(G, Tail(nodes), seen)
    ELSE LET c == reach(G, {Head(nodes)}, {})
         IN  <<c>> \o components_loop(G, Tail(nodes), seen \cup c)

connected_components(G) == components_loop(G, G.nodes, {})

\* graph.subgraph(g).copy(): the subgraph induced on the node set g
subgraph(G, g) ==
    [nodes |-> SelectSeq(G.nodes, LAMBDA n : n \in g),
     edges |-> {e \in G.edges : e \subseteq g}]

is_connected(G) == G.nodes # <<>> /\ reach(G, {G.nodes[1]}, {}) = V(G)

(***************************************************************************)
(* Connector pruner: explore_branches.prune_short_connectors.              *)
(* remove_edges is a list in the code, extended from a set in unspecified  *)
(* order and never holding an edge twice; it is modelled as a set.         *)
(***************************************************************************)
MaxTreeNodes == 8        \* trees of parent pointers have this many nodes
MaxConnectorLen == 3     \* thresholds 1..MaxConnectorLen are tried
ConnectorDefault == 10   \* postprocess_prediction(..., min_connector_length=10)

\* flag_junction = False; path_length = 0; remove_edges = []
scan_start(G) ==
    [graph |-> G, remove_edges |-> {}, flag_junction |-> FALSE,
     path_length |-> 0, cur_branch |-> {}]

\* "Check for junction": start or extend the current run
track_edge(st, e) ==
    IF degree(st.graph, e[1]) > 2
    THEN [st EXCEPT !.flag_junction = TRUE, !.path_length = 1, !.cur_branch = {e}]
    ELSE IF st.flag_junction
    THEN [st EXCEPT !.path_length = @ + 1, !.cur_branch = @ \cup {e}]
    ELSE st

\* if path_length < min_connector_length
connector_is_short(len, minlen) == len < minlen

\* "Check whether to reset": a run that ends at a leaf is dropped; a short
\* run that ends at a junction is marked and removed from the graph at once
reset_edge(st, e, minlen) ==
    IF degree(st.graph, e[2]) = 1
    THEN [st EXCEPT !.flag_junction = FALSE, !.cur_branch = {}]
    ELSE IF degree(st.graph, e[2]) > 2 /\ st.flag_junction
    THEN IF connector_is_short(st.path_length, minlen)
         THEN [st EXCEPT !.remove_edges = @ \cup st.cur_branch,
                         !.graph = remove_edges_from(st.graph, st.cur_branch),
                         !.cur_branch = {}]
         ELSE st
    ELSE st

\* the body of "for (i, j) in dfs_edges"
scan_edge(st, e, minlen) == reset_edge(track_edge(st, e), e, minlen)

RECURSIVE scan_loop(_, _, _)
scan_loop(st, edges, minlen) ==
    IF edges = <<>> THEN st
    ELSE LET next == scan_edge(st, Head(edges), minlen)
         IN  IF next = st THEN scan_loop(st, Tail(edges), minlen)
             ELSE scan_loop(next, Tail(edges), minlen)

\* prune_short_connectors(graph, min_connector_length) as one step:
\* leaf_nodes[0] raises IndexError when the graph has no leaf
prune_short_connectors(G, minlen) ==
    LET leaves == leaf_list(G)
    IN  IF leaves = <<>>
        THEN [graph |-> G, remove_edges |-> {}, raised |-> TRUE]
        ELSE LET st == scan_loop(scan_start(G), dfs_edges_from(G, leaves[1]), minlen)
             IN  [graph |-> st.graph, remove_edges |-> st.remove_edges, raised |-> FALSE]

\* ---- the connector pruner as a state machine: one action per DFS edge --
\* trees given by parent pointers: every node but node 1 has a parent
TreeGraphs == {Graph(1..MaxTreeNodes, E) : E \in ParentEdgeSets(MaxTreeNodes, FALSE)}

ConnInputs ==
    TreeGraphs \cup {G \in SmallGraphs : is_connected(G) /\ leaf_list(G) # <<>>}

InitConn ==
    /\ graph \in ConnInputs
    /\ call_graph = graph
    /\ pc = "idle"
    /\ min_connector_length \in (1..MaxConnectorLen) \cup {ConnectorDefault}
    /\ dfs_edges = <<>>
    /\ remove_edges = {}
    /\ flag_junction = FALSE
    /\ path_length = 0
    /\ cur_branch = {}
    /\ prune_idle /\ cross_idle /\ orch_idle

\* leaf_nodes = [...]; dfs_edges = list(nx.dfs_edges(graph, leaf_nodes[0]))
connectors_call ==
    /\ pc = "idle"
    /\ IF leaf_list(graph) = <<>>
       THEN /\ pc' = "raised"
            /\ UNCHANGED dfs_edges
       ELSE /\ pc' = "scan"
            /\ dfs_edges' = dfs_edges_from(graph, leaf_list(graph)[1])
    /\ UNCHANGED <<graph, call_graph, min_connector_length, remove_edges,
                   flag_junction, path_length, cur_branch,
                   prune_vars, cross_vars, orch_vars>>

\* for (i, j) in dfs_edges: ...
connectors_edge ==
    /\ pc = "scan"
    /\ dfs_edges # <<>>
    /\ LET st == scan_edge([graph |-> graph, remove_edges |-> remove_edges,
                            flag_junction |-> flag_junction,
                            path_length |-> path_length, cur_branch |-> cur_branch],
                           Head(dfs_edges), min_connector_length)
       IN  /\ graph' = st.graph
           /\ remove_edges' = st.remove_edges
           /\ flag_junction' = st.flag_junction
           /\ path_length' = st.path_length
           /\ cur_branch' = st.cur_branch
    /\ dfs_edges' = Tail(dfs_edges)
    /\ UNCHANGED <<call_graph, pc, min_connector_length, prune_vars, cross_vars, orch_vars>>

\* return remove_edges
connectors_return ==
    /\ pc = "scan"
    /\ dfs_edges = <<>>
    /\ pc' = "done"
    /\ UNCHANGED <<graph, call_graph, conn_vars, prune_vars, cross_vars, orch_vars>>

NextConn == connectors_call \/ connectors_edge \/ connectors_return

SpecConn == InitConn /\ [][NextConn]_vars

(***************************************************************************)
(* Crossover detector: explore_branches.detect_crossovers, count_branches. *)
(* prune_nodes is a list in the code and is only used as a set of nodes    *)
(* (graph.remove_nodes_from); it is modelled as a set.                     *)
(***************************************************************************)
MaxCrossNodes == 7       \* trees handed to the detector have this many nodes
LadderLen == 4           \* cyclic inputs are subgraphs of a 2 x LadderLen lattice
MaxDepth == 3            \* depths 1..MaxDepth are tried
DepthDefault == 10       \* break_crossovers(list_of_graphs, depth=10)

\* tree = nx.dfs_tree(graph, source, depth_limit=depth): a directed tree on
\* the source and the DFS edges; leafs = nodes of total degree 1 in the tree
count_branches(G, source, d) ==
    LET es == Range(dfs_edges_limit(G, source, d))
        ns == {source} \cup {e[1] : e \in es} \cup {e[2] : e \in es}
    IN  [nodes |-> ns,
         leafs |-> {n \in ns : Cardinality({e \in es : e[1] = n \/ e[2] = n}) = 1}]

\* mutant: a junction with 3 leaves is flagged as well
is_crossover_ge(num_leafs) == num_leafs >= 3

\* if num_leafs > 3
is_crossover(num_leafs) == num_leafs > 3

\* mutant: the depth limit is left out of the inner search
radius_tree_unbounded(G, j, d) == count_branches(G, j, Len(G.nodes))

\* tree_d, leafs_d = count_branches(graph, j, d)
radius_tree(G, j, d) == count_branches(G, j, d)

\* mutant: a radius with at most as many leaves stops the search
leaf_counts_match_le(leafs_d, num_leafs) == Cardinality(leafs_d) <= num_leafs

\* if len(leafs_d) == num_leafs
leaf_counts_match(leafs_d, num_leafs) == Cardinality(leafs_d) = num_leafs

\* for d in range(1, depth): the first d whose tree has num_leafs leaves,
\* 0 when the loop ends without a break
RECURSIVE search_radius(_, _, _, _, _)
search_radius(G, j, d, dep, num_leafs) ==
    IF d >= dep THEN 0
    ELSE IF leaf_counts_match(radius_tree(G, j, d).leafs, num_leafs) THEN d
    ELSE search_radius(G, j, d + 1, dep, num_leafs)

\* the body of "for j in junctions": what junction j adds to prune_nodes
explore_junction(G, j, dep) ==
    LET t == count_branches(G, j, dep)
        num_leafs == Cardinality(t.leafs)
    IN  IF is_crossover(num_leafs)
        THEN LET d == search_radius(G, j, 1, dep, num_leafs)
             IN  IF d # 0
                 THEN [flagged |-> TRUE, radius |-> d, nodes |-> radius_tree(G, j, d).nodes]
                 ELSE [flagged |-> TRUE, radius |-> dep, nodes |-> t.nodes]
        ELSE [flagged |-> FALSE, radius |-> 0, nodes |-> {}]

\* junctions = [i for i in graph.nodes() if graph.degree(i) > 2]
junction_list(G) == SelectSeq(G.nodes, LAMBDA n : degree(G, n) > 2)

RECURSIVE detect_loop(_, _, _)
detect_loop(G, js, dep) ==
    IF js = <<>> THEN {}
    ELSE explore_junction(G, Head(js), dep).nodes \cup detect_loop(G, Tail(js), dep)

\* detect_crossovers(graph, depth) as one step
detect_crossovers(G, dep) == detect_loop(G, junction_list(G), dep)

\* ---- the detector as a state machine: one action per junction ----------
CrossTreeGraphs == {Graph(1..MaxCrossNodes, E) : E \in ParentEdgeSets(MaxCrossNodes, FALSE)}

\* the 2 x LadderLen lattice: node k sits above node k + LadderLen.  The
\* upper rail is complete, the lower rail and the rungs are optional.
UpperRail == {{k, k + 1} : k \in 1..(LadderLen - 1)}
LadderPool ==
    {{k, k + 1} : k \in (LadderLen + 1)..(2 * LadderLen - 1)}
        \cup {{k, k + LadderLen} : k \in 1..LadderLen}

LadderGraphs ==
    {Graph(1..(2 * LadderLen), UpperRail \cup E) : E \in SUBSET LadderPool}

\* a star of 5 branches of 4 nodes each around node 1
StarGraph == Spider(<<4, 4, 4, 4, 4>>)

CrossInputs == CrossTreeGraphs \cup LadderGraphs \cup SpiderGraphs \cup {StarGraph}

InitCross ==
    /\ graph \in CrossInputs
    /\ call_graph = graph
    /\ pc = "idle"
    /\ depth \in (1..MaxDepth) \cup {DepthDefault}
    /\ junctions = <<>>
    /\ prune_nodes = {}
    /\ excised = <<>>
    /\ prune_idle /\ conn_idle /\ orch_idle

\* prune_nodes = []; junctions = [...]
detect_call ==
    /\ pc = "idle"
    /\ pc' = "loop"
    /\ junctions' = junction_list(graph)
    /\ UNCHANGED <<graph, call_graph, depth, prune_nodes, excised,
                   prune_vars, conn_vars, orch_vars>>

\* for j in junctions: ...
detect_junction ==
    /\ pc = "loop"
    /\ junctions # <<>>
    /\ LET j == Head(junctions)
           x == explore_junction(graph, j, depth)
       IN  /\ prune_nodes' = prune_nodes \cup x.nodes
           /\ excised' = excised @@ (j :> x)
    /\ junctions' = Tail(junctions)
    /\ UNCHANGED <<graph, call_graph, pc, depth, prune_vars, conn_vars, orch_vars>>

\* return prune_nodes
detect_return ==
    /\ pc = "loop"
    /\ junctions = <<>>
    /\ pc' = "done"
    /\ UNCHANGED <<graph, call_graph, cross_vars, prune_vars, conn_vars, orch_vars>>

NextCross == detect_call \/ detect_junction \/ detect_return

SpecCross == InitCross /\ [][NextCross]_vars

(***************************************************************************)
(* Orchestrators: explore_branches.postprocess_prediction,                 *)
(* break_crossovers and explore_branches.  One action is one iteration of  *)
(* "for graph in list_of_graphs"; the list is an input, so each iteration  *)
(* draws its graph from the input graphs.  explore_branches calls prune,   *)
(* which is graph_routines.prune with its default threshold.               *)
(***************************************************************************)
MaxGraphs == 2           \* list_of_graphs has 1..MaxGraphs graphs
MinComponentNodes == 10  \* if subgraph.number_of_nodes() > 10
ConnectorGuard == 3      \* if pruned_graph.number_of_nodes() > 3
ExploreGuard == 1        \* if graph.number_of_nodes() <= 1: continue

\* mutant: a component of exactly 10 nodes is kept
is_kept_ge(g) == Cardinality(g) >= MinComponentNodes

\* if subgraph.number_of_nodes() > 10
is_kept(g) == Cardinality(g) > MinComponentNodes

\* for g in nx.connected_components(graph): subgraph = graph.subgraph(g).copy();
\* keep it when it has more than 10 nodes
kept_components(G) ==
    LET big == SelectSeq(connected_components(G), is_kept)
    IN  [k \in 1..Len(big) |-> subgraph(G, big[k])]

\* the body of the loop of explore_branches over the DFS edges
explore_edge(G, st, e) ==
    LET t == IF degree(G, e[1]) > 2
             THEN [st EXCEPT !.flag_junction = TRUE, !.path_length = 1]
             ELSE IF st.flag_junction
             THEN [st EXCEPT !.path_length = @ + 1]
             ELSE st
    IN  IF degree(G, e[2]) = 1
        THEN [t EXCEPT !.flag_junction = FALSE]
        ELSE IF degree(G, e[2]) > 2 /\ t.flag_junction
        THEN [t EXCEPT !.branch_lengths = Append(@, t.path_length)]
        ELSE t

RECURSIVE explore_loop(_, _, _)
explore_loop(G, st, edges) ==
    IF edges = <<>> THEN st.branch_lengths
    ELSE LET next == explore_edge(G, st, Head(edges))
         IN  IF next = st THEN explore_loop(G, st, Tail(edges))
             ELSE explore_loop(G, next, Tail(edges))

\* a cycle on the nodes 1..n
Ring(n) == Graph(1..n, {{k, k + 1} : k \in 1..(n - 1)} \cup {{1, n}})

\* two hubs joined by a connector of c edges; hub A carries the arms lensA,
\* hub B (the last node of the connector) the arms lensB
Bridge(lensA, c, lensB) ==
    LET half == Spider(lensA \o <<c>>)
    IN  AddArms(half, Len(half.nodes), lensB)

\* two hubs with two arms of 6 nodes each, 1 or 2 edges apart
BridgeGraphs == {Bridge(<<6, 6>>, c, <<6, 6>>) : c \in {1, 2}}

\* a hub with three leaves and one long arm
LongArmGraphs == {Spider(<<1, 1, 1, a>>) : a \in {11, 12}}

OrchInputs == BridgeGraphs \cup LongArmGraphs \cup {Ring(4), Ring(12)}

InitOrch ==
    /\ orchestrator \in {"postprocess_prediction", "break_crossovers", "explore_branches"}
    /\ todo \in 1..MaxGraphs
    /\ min_connector_length \in
          IF orchestrator = "postprocess_prediction" THEN {2, ConnectorDefault} ELSE {0}
    /\ depth \in IF orchestrator = "break_crossovers" THEN {2, DepthDefault} ELSE {0}
    /\ pc = "loop"
    /\ upd = <<>>
    /\ branch_lengths = <<>>
    /\ graph = NoGraph
    /\ call_graph = NoGraph
    /\ pruned_graph = NoGraph
    /\ last_removed = NoGraph
    /\ dfs_edges = <<>> /\ remove_edges = {} /\ flag_junction = FALSE
    /\ path_length = 0 /\ cur_branch = {}
    /\ junctions = <<>> /\ prune_nodes = {} /\ excised = <<>>
    /\ prune_idle

\* postprocess_prediction: one iteration of the loop
postprocess_graph ==
    /\ orchestrator = "postprocess_prediction"
    /\ pc = "loop"
    /\ todo > 0
    /\ \E g \in OrchInputs :
          LET pruned == prune(g, SpuriousDefault)
              r == prune_short_connectors(pruned, min_connector_length)
              final == remove_edges_from(r.graph, r.remove_edges)
          IN  /\ call_graph' = g
              /\ pruned_graph' = pruned
              /\ IF Len(pruned.nodes) > ConnectorGuard
                 THEN IF r.raised
                      THEN /\ pc' = "raised"
                           /\ graph' = pruned
                           /\ UNCHANGED <<upd, last_removed>>
                      ELSE /\ pc' = "loop"
                           /\ graph' = final
                           /\ last_removed' = final
                           /\ upd' = upd \o kept_components(final)
                 ELSE /\ pc' = "loop"
                      /\ graph' = pruned
                      /\ last_removed' = pruned
                      /\ UNCHANGED upd
    /\ todo' = todo - 1
    /\ UNCHANGED <<orchestrator, branch_lengths, min_connector_length, dfs_edges,
                   remove_edges, flag_junction, path_length, cur_branch,
                   prune_vars, cross_vars>>

\* break_crossovers: one iteration of the loop
break_graph ==
    /\ orchestrator = "break_crossovers"
    /\ pc = "loop"
    /\ todo > 0
    /\ \E g \in OrchInputs :
          LET final == remove_nodes_from(g, detect_crossovers(g, depth))
          IN  /\ call_graph' = g
              /\ pruned_graph' = g
              /\ graph' = final
              /\ last_removed' = final
              /\ upd' = upd \o kept_components(final)
    /\ todo' = todo - 1
    /\ UNCHANGED <<pc, orchestrator, branch_lengths, prune_vars, conn_vars, cross_vars>>

\* explore_branches: one iteration of the loop
explore_graph ==
    /\ orchestrator = "explore_branches"
    /\ pc = "loop"
    /\ todo > 0
    /\ \E g \in OrchInputs :
          LET pruned == prune(g, PruneDefault)
              leaves == leaf_list(pruned)
          IN  /\ call_graph' = g
              /\ pruned_graph' = pruned
              /\ graph' = pruned
              /\ last_removed' = pruned
              /\ IF Len(pruned.nodes) <= ExploreGuard
                 THEN /\ pc' = "loop"
                      /\ UNCHANGED branch_lengths
                 ELSE IF leaves = <<>>
                 THEN /\ pc' = "raised"
                      /\ UNCHANGED branch_lengths
                 ELSE /\ pc' = "loop"
                      /\ branch_lengths' =
                            explore_loop(pruned,
                                         [flag_junction |-> FALSE, path_length |-> 0,
                                          branch_lengths |-> branch_lengths],
                                         dfs_edges_from(pruned, leaves[1]))
    /\ todo' = todo - 1
    /\ UNCHANGED <<orchestrator, upd, prune_vars, conn_vars, cross_vars>>

\* return upd / return branch_lengths
orch_return ==
    /\ pc = "loop"
    /\ todo = 0
    /\ pc' = "done"
    /\ UNCHANGED <<graph, call_graph, orch_vars, prune_vars, conn_vars, cross_vars>>

NextOrch == postprocess_graph \/ break_graph \/ explore_graph \/ orch_return

SpecOrch == InitOrch /\ [][NextOrch]_vars

(***************************************************************************)
(* Claims about the leaf-branch pruner (checked under SpecPrune).          *)
(***************************************************************************)
Before(s, a, b) == \E x, y \in DOMAIN s : s[x] = a /\ s[y] = b /\ x < y

\* C1 (as stated): every node that has degree > 2 when the pruner is called
\* is still a node of the graph when that call returns.
C1_JunctionSurvivesCall ==
    (pc = "done" /\ calls = 1) =>
        \A n \in V(call_graph) : degree(call_graph, n) > 2 => n \in V(graph)

\* C1 (amended): no step of the pruner removes a node that has degree > 2
\* at the moment of that step: the walk stops at it without visiting it.
C1_JunctionSurvivesStep ==
    [][\A n \in V(graph) : degree(graph, n) > 2 => n \in V(graph')]_vars

\* C1 witness: a step has removed a branch next to a node that had degree > 2
\* just before, and that node is still in the graph.
C1_Witness ==
    /\ pc = "loop" /\ calls = 1
    /\ \E n \in V(graph) : /\ degree(call_graph, n) > 2
                           /\ \E m \in neighbors(call_graph, n) : m \notin V(graph)

\* C2: a second application of the pruner at the same threshold returns the
\* node set and edge set the first application returned.
C2_Idempotent ==
    (pc = "done" /\ calls = 2) =>
        /\ V(graph) = V(first_result)
        /\ graph.edges = first_result.edges

\* C2 witness: the second application has returned, after a first one that
\* removed nodes and left leaves and a junction for the second to walk from.
C2_Witness ==
    /\ pc = "done" /\ calls = 2
    /\ V(first_result) # V(call_graph)
    /\ leaf_order # <<>>
    /\ \E n \in V(first_result) : degree(first_result, n) > 2

ChainSpurCall ==
    /\ pc = "done" /\ calls = 1
    /\ call_graph \in ChainSpurGraphs
    /\ min_branch_length = 5

\* C7 (as stated): on the 12-chain with a 2-node spur at node 6 and
\* min_branch_length = 5 the pruner removes exactly the two spur nodes, for
\* every order of the three leaves.
C7_OnlySpurRemoved ==
    ChainSpurCall =>
        /\ V(graph) = 1..12
        /\ graph.edges = {{k, k + 1} : k \in 1..11}
        /\ degree(graph, 6) = 2

\* C7 (amended): the pruner removes exactly the two spur nodes when the spur
\* leaf 14 is processed before chain end 1; when chain end 1 is processed
\* first it removes exactly chain nodes 1..5 (a branch of 5 <= 5 nodes) and
\* keeps the spur.  Node 6 ends with degree 2 either way.
C7_SpurOrShortArmRemoved ==
    ChainSpurCall =>
        /\ IF Before(leaf_order, 14, 1)
           THEN /\ V(graph) = 1..12
                /\ graph.edges = {{k, k + 1} : k \in 1..11}
           ELSE /\ V(graph) = 6..14
                /\ graph.edges = {{k, k + 1} : k \in 6..11} \cup {{6, 13}, {13, 14}}
        /\ degree(graph, 6) = 2

\* C7 witness: the scenario call returned with the spur removed.
C7_Witness == ChainSpurCall /\ V(graph) = 1..12

(***************************************************************************)
(* Claims about the connector pruner (checked under SpecConn).             *)
(***************************************************************************)
\* the edge run that leaves node a through its neighbour b and follows
\* degree-2 nodes until a node of another degree (or a again) is reached
RECURSIVE follow_run(_, _, _, _, _)
follow_run(G, a, prev, cur, es) ==
    IF degree(G, cur) # 2 \/ cur = a THEN [end |-> cur, edges |-> es]
    ELSE LET next == CHOOSE m \in neighbors(G, cur) : m # prev
         IN  follow_run(G, a, cur, next, es \cup {{cur, next}})

\* the runs between two junctions of G: all interior nodes have degree 2
JunctionRuns(G) ==
    {r \in {follow_run(G, a, a, b, {{a, b}}) :
                a \in {n \in V(G) : degree(G, n) > 2}, b \in V(G)} :
        /\ \E e \in r.edges : TRUE
        /\ r.edges \subseteq G.edges
        /\ degree(G, r.end) > 2}

Undirected(T) == {{t[1], t[2]} : t \in T}

\* C3: when the scan has returned, every junction-to-junction run of the
\* call-time graph with exactly min_connector_length edges has kept all its
\* edges, and every such run with min_connector_length - 1 edges has had all
\* its edges removed and returned.
C3_ThresholdBoundary ==
    pc = "done" =>
        \A r \in JunctionRuns(call_graph) :
            /\ Cardinality(r.edges) = min_connector_length =>
                    r.edges \subseteq graph.edges
            /\ Cardinality(r.edges) = min_connector_length - 1 =>
                    /\ r.edges \cap graph.edges = {}
                    /\ r.edges \subseteq Undirected(remove_edges)

\* the scan on a copy that is never modified: the graph is put back after
\* every edge, marked edges are only collected
RECURSIVE marked_on_copy(_, _, _)
marked_on_copy(st, edges, minlen) ==
    IF edges = <<>> THEN st.remove_edges
    ELSE marked_on_copy([scan_edge(st, Head(edges), minlen) EXCEPT !.graph = st.graph],
                        Tail(edges), minlen)

\* C9: the graph is not changed while the DFS edges are being scanned, and
\* the returned edges are those a scan of an unmodified copy marks.
C9_NoChangeDuringScan ==
    /\ pc = "scan" => graph = call_graph
    /\ pc = "done" =>
          remove_edges = marked_on_copy(scan_start(call_graph),
                             dfs_edges_from(call_graph, leaf_list(call_graph)[1]),
                             min_connector_length)

(***************************************************************************)
(* Claims about the crossover detector (checked under SpecCross).          *)
(***************************************************************************)
LeafCount(G, j, d) == Cardinality(count_branches(G, j, d).leafs)

is_forest(G) == Cardinality(G.edges) + Len(connected_components(G)) = Len(G.nodes)

\* C4 (as stated): for every graph, when the search for a flagged junction
\* stops at a radius d < depth, the nodes of the tree of radius d are a
\* subset of the nodes of the tree of radius depth.
C4_MinimalExcision ==
    \A j \in DOMAIN excised :
        (excised[j].flagged /\ excised[j].radius < depth) =>
            excised[j].nodes \subseteq count_branches(graph, j, depth).nodes

\* C4 (amended): the same, for graphs without cycles.
C4_MinimalExcisionAcyclic ==
    is_forest(graph) =>
        \A j \in DOMAIN excised :
            (excised[j].flagged /\ excised[j].radius < depth) =>
                excised[j].nodes \subseteq count_branches(graph, j, depth).nodes

\* C4 witness: in an acyclic graph a flagged junction was resolved at a
\* radius below depth with fewer nodes than the full-depth tree has.
C4_Witness ==
    /\ is_forest(graph)
    /\ \E j \in DOMAIN excised :
          /\ excised[j].flagged /\ excised[j].radius < depth
          /\ excised[j].nodes # count_branches(graph, j, depth).nodes

\* C5: a junction contributes an excision set, which contains the junction
\* itself, iff its depth-limited tree has more than 3 leaves: with exactly 3
\* leaves it contributes nothing, with exactly 4 it is in the result.
C5_LeafCountBoundary ==
    \A j \in DOMAIN excised :
        /\ (excised[j].nodes # {}) <=> (LeafCount(graph, j, depth) > 3)
        /\ excised[j].nodes # {} => j \in excised[j].nodes
        /\ LeafCount(graph, j, depth) = 3 => excised[j].nodes = {}
        /\ LeafCount(graph, j, depth) = 4 => j \in excised[j].nodes /\ j \in prune_nodes

\* C5 witness: one explored junction has exactly 3 leaves in its tree and
\* another has exactly 4.
C5_Witness ==
    /\ \E j \in DOMAIN excised : LeafCount(graph, j, depth) = 3
    /\ \E j \in DOMAIN excised : LeafCount(graph, j, depth) = 4

\* E(j): the tree nodes at the smallest radius below depth whose leaf count
\* equals the full-depth leaf count, else the nodes of the full-depth tree
ExcisionSet(G, j, dep) ==
    LET D == {d \in 1..(dep - 1) : LeafCount(G, j, d) = LeafCount(G, j, dep)}
    IN  IF D = {} THEN count_branches(G, j, dep).nodes
        ELSE count_branches(G, j, Min(D)).nodes

\* C8: the returned set is the union of E(j) over the junctions whose
\* full-depth tree has more than 3 leaves; for the star of 5 branches of 4
\* nodes with depth = 10 it is the hub and its 5 neighbours.
C8_UnionOfExcisionSets ==
    pc = "done" =>
        /\ prune_nodes =
              UNION {ExcisionSet(graph, j, depth) :
                        j \in {n \in V(graph) : degree(graph, n) > 2
                                                /\ LeafCount(graph, n, depth) > 3}}
        /\ (graph = StarGraph /\ depth = 10) => prune_nodes = {1, 2, 6, 10, 14, 18}

\* C8 witness: the detector returned for the star with depth 10.
C8_Witness ==
    /\ pc = "done" /\ graph = StarGraph /\ depth = 10
    /\ Cardinality(prune_nodes) = 6

(***************************************************************************)
(* Claims about the orchestrators (checked under SpecOrch).                *)
(***************************************************************************)
\* what one iteration appends to upd
C6_Appended ==
    /\ Len(upd') >= Len(upd)
    /\ SubSeq(upd', 1, Len(upd)) = upd
    /\ \A k \in (Len(upd) + 1)..Len(upd') :
          /\ Len(upd'[k].nodes) > 10
          /\ is_connected(upd'[k])
          /\ \E n \in V(last_removed') :
                /\ V(upd'[k]) = reach(last_removed', {n}, {})
                /\ upd'[k].edges = {e \in last_removed'.edges : e \subseteq V(upd'[k])}

\* C6: every graph an iteration of postprocess_prediction or break_crossovers
\* appends to upd has more than 10 nodes, is connected, and is the subgraph
\* induced on one connected component of the input graph as it stands after
\* that iteration's removals; graphs appended earlier stay as they are.
C6_ReturnedComponents ==
    [][(orchestrator \in {"postprocess_prediction", "break_crossovers"}) => C6_Appended]_vars

\* C6 witness: a pass has split one input graph and returned a component of
\* it while dropping another.
C6_Witness ==
    /\ orchestrator \in {"postprocess_prediction", "break_crossovers"}
    /\ pc = "done"
    /\ upd # <<>>
    /\ Len(upd[Len(upd)].nodes) < Len(last_removed.nodes)
    /\ \E c \in Range(connected_components(last_removed)) : Cardinality(c) <= 10

\* C10: whenever postprocess_prediction passes its guard (more than 3 nodes
\* after pruning) or explore_branches passes its own (more than 1 node), the
\* pruned graph has a node of degree 1 and the iteration completes.
C10_GuardsSuffice ==
    (\/ orchestrator = "postprocess_prediction" /\ Len(pruned_graph.nodes) > 3
     \/ orchestrator = "explore_branches" /\ Len(pruned_graph.nodes) > 1) =>
        /\ leaf_list(pruned_graph) # <<>>
        /\ pc # "raised"

====
